---- MODULE Spec2Model ----
(***************************************************************************)
(* Asynchronous savings-export jobs of the Org Explorer frontend server.   *)
(*                                                                         *)
(* The server keeps an in-memory table jobStatus (job id -> record) and a  *)
(* temp directory of zip files.  Three routes act on them:                 *)
(*   GET /org/:id/download_monthly_savings_csv   start an export           *)
(*   GET /api/job-status/:jobId                  sweep old jobs, report    *)
(*   GET /api/download/:jobId                    stream the zip, unlink it *)
(* and processSavingsExport is the background worker of one export.        *)
(*                                                                         *)
(* Node runs every handler and every continuation of an async function to  *)
(* its next await without interleaving, so one action of this module is    *)
(* one such run-to-completion block.                                       *)
(***************************************************************************)
EXTENDS Integers, Sequences, FiniteSets, Bags, TLC

VARIABLES
    now,        \* the reading of Date.now()
    jobStatus,  \* the job table: a function from the stored job ids to records
    files,      \* the temp directory: file path -> "partial" | "complete"
    workers,    \* the bag of Start calls: the answer and the processSavingsExport instance of each
    transfers,  \* the bag of downloads between res.download and the end of fs.unlink
    consumed,   \* the job ids of the downloads whose transfer ended without error
    poller      \* the browser's pollJobStatus: its job, its interval, its requests

vars == <<now, jobStatus, files, workers, transfers, consumed, poller>>

----------------------------------------------------------------------------
(* Bounds of the model *)

MaxTime == 3         \* the clock runs from 1 to MaxTime
MaxStarts == 2       \* number of Start calls
MaxTransfers == 2    \* number of downloads under way at the same time
MaxInFlight == 2     \* number of the poller's Status requests without an answer yet

(* The sweep's age limit, 3600000 ms in the source; it is the unit of time  *)
(* of the model.                                                           *)
ExpiryWindow == 1

\* The organizations exports are started for.  A job id and an export id
\* carry the organization id, so the jobs and files of two organizations are
\* disjoint; one organization is where ids can meet.
Orgs == {1}
Times == 1..MaxTime

----------------------------------------------------------------------------
(* Values *)

\* JavaScript null in a field that otherwise holds an id
Null == <<>>

\* JavaScript null, undefined or '' in a field that otherwise holds text: all
\* three are falsy, which is the only thing the code asks of them
NoText == ""

\* `savings-export-${orgId}-${Date.now()}`: the template of both the job id
\* and the export id
MkId(orgId, ts) == <<"savings-export", orgId, ts>>

Ids == {MkId(o, t) : o \in Orgs, t \in Times}

\* A job id that no Start call ever made: there is no organization 0
UnknownId == MkId(0, 0)

\* path.join(tempDir, `${exportId}.zip`)
FilePath(exportId) == <<"temp", exportId, ".zip">>

\* `${orgName}-savings-analysis.zip`
DownloadName(orgName) == <<orgName, "-savings-analysis.zip">>

\* a || b on text
OrElse(a, b) == IF a # NoText THEN a ELSE b

Terminal == {"completed", "error"}

\* The remote provider's answer to GET /org/<orgId>: the body's org.org, which
\* only organization 1 has
OrgNameOf(orgId) == IF orgId = 1 THEN "Acme" ELSE NoText

\* error.message of what the catch block can catch, by its origin: a non-2xx
\* answer to the lookup, a connection failure of the report request (an
\* AggregateError, whose message is empty), a failed write, and the TypeError
\* of an assignment to a field of a missing record
ErrorMessage(origin) ==
    CASE origin = "lookup" -> "Request failed with status code 404"
      [] origin = "report" -> NoText
      [] origin = "write" -> "ENOSPC: no space left on device"
      [] origin = "record" -> "Cannot set properties of undefined"

----------------------------------------------------------------------------
(* The job table *)

\* The record Start stores under a new job id
NewJob(orgId, t) ==
    [status |-> "processing", orgId |-> orgId, exportId |-> Null,
     error |-> NoText, created |-> t, orgName |-> NoText]

\* jobStatus[id] = rec
Put(js, id, rec) == [j \in (DOMAIN js) \cup {id} |-> IF j = id THEN rec ELSE js[j]]

\* A sweep that spares the jobs still in processing
ExpiredUnlessProcessing(rec, t) ==
    rec.status # "processing" /\ rec.created # 0 /\ t - rec.created > ExpiryWindow

\* A sweep that also takes the records exactly one window old
ExpiredAtWindow(rec, t) == rec.created # 0 /\ t - rec.created >= ExpiryWindow

\* The condition under which the sweep deletes a record
Expired(rec, t) == rec.created # 0 /\ t - rec.created > ExpiryWindow

\* The sweep at the head of the status route
Sweep(js, t) == [j \in {i \in DOMAIN js : ~Expired(js[i], t)} |-> js[j]]

----------------------------------------------------------------------------
(* Start: GET /org/:id/download_monthly_savings_csv *)

\* A handler that awaits the worker before it answers has no answer yet when
\* the worker starts
StartAnswerAwaited(jobId) == [status |-> "pending", jobId |-> Null]

\* The body of the immediate answer
StartAnswer(jobId) == [status |-> "processing", jobId |-> jobId]

\* The handler stores the record, answers, and calls processSavingsExport,
\* which runs up to its first await: the organization lookup is under way.
Start(orgId) ==
    /\ BagCardinality(workers) < MaxStarts
    /\ LET jobId == MkId(orgId, now) IN
        /\ jobStatus' = Put(jobStatus, jobId, NewJob(orgId, now))
        /\ workers' = workers (+) SetToBag({[orgId |-> orgId, jobId |-> jobId,
                                              answer |-> StartAnswer(jobId),
                                              pc |-> "awaitOrg", exportId |-> Null]})
    /\ UNCHANGED <<now, files, transfers, consumed, poller>>

----------------------------------------------------------------------------
(* processSavingsExport, the background worker of a Start call.  Its pc is  *)
(* the await it is suspended at, or the way it ended:                      *)
(*   awaitOrg, awaitReport, writing;                                       *)
(*   lookupFailed, reportFailed, writeFailed: the awaited call rejected;   *)
(*   lostRecord: a TypeError on the missing record; completed.             *)
(* exportId is its local variable of that name, Null before the assignment *)
(* and after the function has returned.                                    *)

Running == {"awaitOrg", "awaitReport", "writing"}

\* The endings of a worker through its catch block
Failed == {"lookupFailed", "reportFailed", "writeFailed", "lostRecord"}

\* The workers after worker w has become v
SetWorker(w, v) == (workers (-) SetToBag({w})) (+) SetToBag({v})

\* A catch block that stores a new error record under the job id
CatchRecreating(js, jobId, msg) ==
    Put(js, jobId, [status |-> "error", orgId |-> jobId[2], exportId |-> Null,
                    error |-> OrElse(msg, "Export failed"), created |-> 0,
                    orgName |-> NoText])

\* A catch block that stores error.message as it is
CatchKeepsMessage(js, jobId, msg) ==
    IF jobId \in DOMAIN js
    THEN Put(js, jobId, [js[jobId] EXCEPT !.status = "error", !.error = msg])
    ELSE js

\* The catch block: the record, if it is still there, becomes an error record
Catch(js, jobId, msg) ==
    IF jobId \in DOMAIN js
    THEN Put(js, jobId, [js[jobId] EXCEPT !.status = "error",
                                          !.error = OrElse(msg, "Export failed")])
    ELSE js

\* The lines after the write: the record becomes a completed record
Publish(js, jobId, exportId) ==
    Put(js, jobId, [js[jobId] EXCEPT !.status = "completed", !.exportId = exportId])

\* The organization lookup settles.  A rejection goes to the catch block.  A
\* body is reduced to a name, which is stored in the record (a TypeError that
\* the catch block swallows when the record is gone); then the report request
\* is sent.
OrgLookupReturns(w, ok) ==
    /\ w \in BagToSet(workers)
    /\ w.pc = "awaitOrg"
    /\  IF ~ok
        THEN /\ jobStatus' = Catch(jobStatus, w.jobId, ErrorMessage("lookup"))
             /\ workers' = SetWorker(w, [w EXCEPT !.pc = "lookupFailed"])
        ELSE IF w.jobId \notin DOMAIN jobStatus
        THEN /\ jobStatus' = Catch(jobStatus, w.jobId, ErrorMessage("record"))
             /\ workers' = SetWorker(w, [w EXCEPT !.pc = "lostRecord"])
        ELSE /\ jobStatus' = Put(jobStatus, w.jobId,
                                 [jobStatus[w.jobId] EXCEPT
                                    !.orgName = OrElse(OrgNameOf(w.orgId), "organization")])
             /\ workers' = SetWorker(w, [w EXCEPT !.pc = "awaitReport"])
    /\ UNCHANGED <<now, files, transfers, consumed, poller>>

\* The report request settles.  A rejection (network error, non-2xx status)
\* goes to the catch block.  Otherwise the export id is made from the clock
\* and fs.promises.writeFile is called: it opens the file with flag 'w', which
\* creates it, or truncates it when it exists, and the write is under way.
ReportReturns(w, ok) ==
    /\ w \in BagToSet(workers)
    /\ w.pc = "awaitReport"
    /\  IF ok
        THEN /\ workers' = SetWorker(w, [w EXCEPT !.pc = "writing",
                                                  !.exportId = MkId(w.orgId, now)])
             /\ files' = Put(files, FilePath(MkId(w.orgId, now)), "partial")
             /\ UNCHANGED jobStatus
        ELSE /\ jobStatus' = Catch(jobStatus, w.jobId, ErrorMessage("report"))
             /\ workers' = SetWorker(w, [w EXCEPT !.pc = "reportFailed"])
             /\ UNCHANGED files
    /\ UNCHANGED <<now, transfers, consumed, poller>>

\* writeFile settles.  On success the file holds all the bytes and the record
\* is completed (a TypeError that the catch block swallows when the record is
\* gone).  On failure the bytes written so far stay on disk and the catch block
\* runs.
WriteReturns(w, ok) ==
    /\ w \in BagToSet(workers)
    /\ w.pc = "writing"
    /\  IF ok
        THEN /\ files' = Put(files, FilePath(w.exportId), "complete")
             /\ IF w.jobId \in DOMAIN jobStatus
                THEN /\ jobStatus' = Publish(jobStatus, w.jobId, w.exportId)
                     /\ workers' = SetWorker(w, [w EXCEPT !.pc = "completed",
                                                          !.exportId = Null])
                ELSE /\ jobStatus' = Catch(jobStatus, w.jobId, ErrorMessage("record"))
                     /\ workers' = SetWorker(w, [w EXCEPT !.pc = "lostRecord",
                                                          !.exportId = Null])
        ELSE /\ jobStatus' = Catch(jobStatus, w.jobId, ErrorMessage("write"))
             /\ workers' = SetWorker(w, [w EXCEPT !.pc = "writeFailed",
                                                  !.exportId = Null])
             /\ UNCHANGED files
    /\ UNCHANGED <<now, transfers, consumed, poller>>

----------------------------------------------------------------------------
(* Status: GET /api/job-status/:jobId *)

\* The job ids a client asks about: those Start has answered with, and an
\* unknown one
AskedIds == {w.jobId : w \in BagToSet(workers)} \cup {UnknownId}

\* What the handler sends for jobId, given the swept table: 404, or the
\* record as JSON
StatusAnswer(js, jobId) ==
    IF jobId \notin DOMAIN js
    THEN [code |-> "notfound"]
    ELSE [code |-> js[jobId].status, exportId |-> js[jobId].exportId,
          error |-> js[jobId].error]

\* A handler that looks the job up before it sweeps
StatusReplyBeforeSweep(js, t, jobId) == StatusAnswer(js, jobId)

\* What the handler sends for jobId at clock reading t, given the table it
\* finds: it sweeps, then looks the job up
StatusReply(js, t, jobId) == StatusAnswer(Sweep(js, t), jobId)

\* A status route whose sweep also unlinks the files of the records it deletes
StatusUnlinking(jobId) ==
    /\ jobId \in AskedIds
    /\ jobStatus' = Sweep(jobStatus, now)
    /\ files' = [q \in (DOMAIN files) \
                        {FilePath(jobStatus[j].exportId) :
                            j \in (DOMAIN jobStatus) \ (DOMAIN Sweep(jobStatus, now))}
                    |-> files[q]]
    /\ UNCHANGED <<now, workers, transfers, consumed, poller>>

\* The handler sweeps the table and sends StatusReply(jobStatus, now, jobId)
Status(jobId) ==
    /\ UNCHANGED <<now, files, workers, transfers, consumed, poller>>
    /\ jobId \in AskedIds
    /\ jobStatus' = Sweep(jobStatus, now)

----------------------------------------------------------------------------
(* Download: GET /api/download/:jobId *)

\* Whether the handler gets as far as res.download
Servable(js, fs, jobId) ==
    /\ jobId \in DOMAIN js
    /\ js[jobId].exportId # Null
    /\ FilePath(js[jobId].exportId) \in DOMAIN fs

\* What the handler sends for jobId: 404, or the file under the name made
\* from orgName
DownloadAnswer(js, fs, jobId) ==
    IF Servable(js, fs, jobId)
    THEN [code |-> "file",
          name |-> DownloadName(OrElse(js[jobId].orgName, "organization")),
          content |-> fs[FilePath(js[jobId].exportId)]]
    ELSE [code |-> "notfound"]

\* The handler sends DownloadAnswer(jobStatus, files, jobId); when that is the
\* file, the transfer is under way
Download(jobId) ==
    /\ jobId \in AskedIds
    /\ BagCardinality(transfers) < MaxTransfers
    /\ transfers' = IF Servable(jobStatus, files, jobId)
                    THEN transfers (+) SetToBag({[jobId |-> jobId, pc |-> "transfer",
                               path |-> FilePath(jobStatus[jobId].exportId)]})
                    ELSE transfers
    /\ UNCHANGED <<now, jobStatus, files, workers, consumed, poller>>

\* A callback that calls fs.unlink whether or not the transfer had an error
TransferEndsUnlinking(d, ok) ==
    /\ d \in BagToSet(transfers)
    /\ d.pc = "transfer"
    /\ transfers' = (transfers (-) SetToBag({d})) (+) SetToBag({[d EXCEPT !.pc = "unlink"]})
    /\ consumed' = IF ok THEN consumed \cup {d.jobId} ELSE consumed
    /\ UNCHANGED <<now, jobStatus, files, workers, poller>>

\* A callback that also deletes the job record after a transfer without error
TransferEndsDestroying(d, ok) ==
    /\ d \in BagToSet(transfers)
    /\ d.pc = "transfer"
    /\ transfers' = IF ok
                    THEN (transfers (-) SetToBag({d})) (+) SetToBag({[d EXCEPT !.pc = "unlink"]})
                    ELSE transfers (-) SetToBag({d})
    /\ consumed' = IF ok THEN consumed \cup {d.jobId} ELSE consumed
    /\ jobStatus' = IF ok
                    THEN [j \in (DOMAIN jobStatus) \ {d.jobId} |-> jobStatus[j]]
                    ELSE jobStatus
    /\ UNCHANGED <<now, files, workers, poller>>

\* The callback of res.download: with an error it only logs, without one it
\* calls fs.unlink
TransferEnds(d, ok) ==
    /\ d \in BagToSet(transfers)
    /\ d.pc = "transfer"
    /\ transfers' = IF ok
                    THEN (transfers (-) SetToBag({d})) (+) SetToBag({[d EXCEPT !.pc = "unlink"]})
                    ELSE transfers (-) SetToBag({d})
    /\ consumed' = IF ok THEN consumed \cup {d.jobId} ELSE consumed
    /\ UNCHANGED <<now, jobStatus, files, workers, poller>>

\* fs.unlink settles: the file is gone, or (no such file, no permission) the
\* error is logged and the directory is as it was
UnlinkEnds(d, ok) ==
    /\ d \in BagToSet(transfers)
    /\ d.pc = "unlink"
    /\ files' = IF ok /\ d.path \in DOMAIN files
                THEN [q \in (DOMAIN files) \ {d.path} |-> files[q]]
                ELSE files
    /\ transfers' = transfers (-) SetToBag({d})
    /\ UNCHANGED <<now, jobStatus, workers, consumed, poller>>

----------------------------------------------------------------------------
(* The clock *)

Tick ==
    /\ now < MaxTime
    /\ now' = now + 1
    /\ UNCHANGED <<jobStatus, files, workers, transfers, consumed, poller>>

----------------------------------------------------------------------------

(* The browser: startSavingsExport and pollJobStatus.  The page that got the *)
(* answer of a Start call sets an interval that sends a Status request every *)
(* 3 seconds; a request's answer is handled when it arrives, whatever has    *)
(* become of the interval since.                                             *)

\* No pollJobStatus call yet
NoPoller ==
    [jobId |-> Null, polling |-> FALSE, inFlight |-> EmptyBag,
     last |-> "none", scheduled |-> 0]

\* What the interval callback looks at in an answer: data.status and whether
\* data.exportId is truthy; a 404 body has neither
PollView(answer) ==
    [status |-> answer.code,
     hasExportId |-> (answer.code # "notfound" /\ answer.exportId # Null)]

\* The views of the answers a request can get
PollViews ==
    {[status |-> c, hasExportId |-> b] :
        c \in {"processing", "completed", "error", "notfound", "failed"}, b \in BOOLEAN}

\* startSavingsExport has the answer of its Start call and calls
\* pollJobStatus, which sets the interval
PollBegin(w) ==
    /\ poller = NoPoller
    /\ w \in BagToSet(workers)
    /\ w.answer.status = "processing"
    /\ w.answer.jobId # Null
    /\ poller' = [poller EXCEPT !.jobId = w.answer.jobId, !.polling = TRUE]
    /\ UNCHANGED <<now, jobStatus, files, workers, transfers, consumed>>

\* The interval fires and its fetch is sent.  When the request gets through,
\* the status route handles it and the answer is on its way; otherwise the
\* fetch is going to reject.
PollRequest(ok) ==
    /\ poller.polling
    /\ BagCardinality(poller.inFlight) < MaxInFlight
    /\ jobStatus' = IF ok THEN Sweep(jobStatus, now) ELSE jobStatus
    /\ poller' = [poller EXCEPT !.inFlight = @ (+) SetToBag({
                      IF ok THEN PollView(StatusReply(jobStatus, now, poller.jobId))
                            ELSE [status |-> "failed", hasExportId |-> FALSE]})]
    /\ UNCHANGED <<now, files, workers, transfers, consumed>>

\* The body of the interval callback after the await: completed with an
\* export id clears the interval and schedules the download, error clears the
\* interval, a rejected fetch clears it in the catch block, anything else
\* leaves it running
PollHandle(p, v) ==
    IF v.status = "completed" /\ v.hasExportId
    THEN [p EXCEPT !.polling = FALSE, !.scheduled = @ + 1]
    ELSE IF v.status \in {"error", "failed"}
    THEN [p EXCEPT !.polling = FALSE]
    ELSE p

\* An answer arrives and the callback that awaited it goes on
PollReceive(v) ==
    /\ BagIn(v, poller.inFlight)
    /\ poller' = [PollHandle(poller, v) EXCEPT !.inFlight = @ (-) SetToBag({v}),
                                                !.last = v.status]
    /\ UNCHANGED <<now, jobStatus, files, workers, transfers, consumed>>

\* The workers that can be suspended at the await of a remote call
Awaiting(pc) ==
    {[orgId |-> o, jobId |-> MkId(o, t), answer |-> StartAnswer(MkId(o, t)),
      pc |-> pc, exportId |-> Null] : o \in Orgs, t \in Times}

\* The workers that can be suspended at the await of writeFile
Writing ==
    {[orgId |-> o, jobId |-> MkId(o, t), answer |-> StartAnswer(MkId(o, t)),
      pc |-> "writing", exportId |-> MkId(o, e)] : o \in Orgs, t \in Times, e \in Times}

\* The downloads that can be under way
Transferring(pc) ==
    {[jobId |-> j, pc |-> pc, path |-> FilePath(e)] : j \in Ids, e \in Ids}

Init ==
    /\ now = 1
    /\ jobStatus = << >>
    /\ files = << >>
    /\ workers = EmptyBag
    /\ transfers = EmptyBag
    /\ consumed = {}
    /\ poller = NoPoller

Next ==
    \/ \E o \in Orgs : Start(o)
    \/ \E w \in Awaiting("awaitOrg"), ok \in BOOLEAN : OrgLookupReturns(w, ok)
    \/ \E w \in Awaiting("awaitReport"), ok \in BOOLEAN : ReportReturns(w, ok)
    \/ \E w \in Writing, ok \in BOOLEAN : WriteReturns(w, ok)
    \/ \E j \in Ids \cup {UnknownId} : Status(j)
    \/ \E j \in Ids \cup {UnknownId} : Download(j)
    \/ \E d \in Transferring("transfer"), ok \in BOOLEAN : TransferEnds(d, ok)
    \/ \E d \in Transferring("unlink"), ok \in BOOLEAN : UnlinkEnds(d, ok)
    \/ Tick

Spec == Init /\ [][Next]_vars

\* What the event loop is bound to run once it is due: the continuation of a
\* local file write, the callback of a transfer, the callback of fs.unlink.
\* The axios calls have no timeout option, so nothing bounds the time to the
\* answer of a remote call; requests and the clock are the environment's.
LocalStep ==
    \/ \E w \in Writing, ok \in BOOLEAN : WriteReturns(w, ok)
    \/ \E d \in Transferring("transfer"), ok \in BOOLEAN : TransferEnds(d, ok)
    \/ \E d \in Transferring("unlink"), ok \in BOOLEAN : UnlinkEnds(d, ok)

FairSpec == Spec /\ WF_vars(LocalStep)

\* The server together with the browser's poller
PollNext ==
    \/ Next
    \/ \E w \in Awaiting("awaitOrg") \cup Awaiting("awaitReport") \cup Writing : PollBegin(w)
    \/ \E ok \in BOOLEAN : PollRequest(ok)
    \/ \E v \in PollViews : PollReceive(v)

PollSpec == Init /\ [][PollNext]_vars

----------------------------------------------------------------------------
(* Properties *)

\* The clock reading a job id was made from
StampOf(id) == id[3]

\* C1: every Start call is answered {status: "processing", jobId} no later
\* than its worker sends its first remote request, and that is its answer
\* whatever the worker's remote calls do afterwards (succeed, fail or stay
\* pending).
C1_ImmediateAck ==
    \A w \in BagToSet(workers) :
        w.answer = [status |-> "processing", jobId |-> MkId(w.orgId, StampOf(w.jobId))]

\* A Start call is answered and the report request of its worker has failed
C1_Witness ==
    \E w \in BagToSet(workers) :
        /\ w.pc = "reportFailed"
        /\ w.answer.status = "processing"
        /\ w.answer.jobId = w.jobId

\* C2: a job record changes status at most once, from processing to a
\* terminal status; the status route reports the status of the record, so
\* after it has reported a terminal status it reports no other status.
C2_OneTerminalTransition ==
    [][\A j \in (DOMAIN jobStatus) \cap (DOMAIN jobStatus') :
          /\ jobStatus'[j].status # jobStatus[j].status
                => jobStatus[j].status = "processing"
          /\ StatusAnswer(jobStatus, j).code \in Terminal
                => StatusAnswer(jobStatus', j).code = StatusAnswer(jobStatus, j).code]_vars

\* C3: Start stores its record under a job id that is not in the table, so
\* every Start call has a record of its own for its worker to write.
C3_FreshJobId ==
    [][\A o \in Orgs : Start(o) => MkId(o, now) \notin DOMAIN jobStatus]_vars

\* C4: a record has an export id exactly when its status is completed.
C4_ExportIdIffCompleted ==
    \A j \in DOMAIN jobStatus :
        (jobStatus[j].exportId # Null) <=> (jobStatus[j].status = "completed")

\* C5: a record has an error text exactly when its status is error.
C5_ErrorIffError ==
    \A j \in DOMAIN jobStatus :
        (jobStatus[j].error # NoText) <=> (jobStatus[j].status = "error")

\* C6: once a download of a job has ended without error, the download route
\* serves no file for that job: not to a later request, and not to a request
\* whose transfer is still under way.
C6_DownloadOnce ==
    \A d \in BagToSet(transfers) : d.pc = "transfer" => d.jobId \notin consumed

\* C7: in every state, a Status call for a job whose record is older than the
\* expiry window answers 404 and leaves a table without the record, whatever
\* the record's status and whether or not the job was downloaded.
C7_ExpiredIsNotFound ==
    \A j \in AskedIds :
        (j \in DOMAIN jobStatus /\ now - jobStatus[j].created > ExpiryWindow)
            => /\ StatusAnswer(Sweep(jobStatus, now), j).code = "notfound"
               /\ j \notin DOMAIN Sweep(jobStatus, now)

\* A job that was started longer ago than the expiry window, is still being
\* processed and was never downloaded has no record any more
C7_Witness ==
    \E w \in BagToSet(workers) :
        /\ now - StampOf(w.jobId) > ExpiryWindow
        /\ w.pc \in Running
        /\ w.jobId \notin consumed
        /\ w.jobId \notin DOMAIN jobStatus

\* C8: a failed organization lookup does not put the job in error: the worker
\* goes on to the report request, and the job's file is served under the
\* fallback name.
C8_LookupFailureTolerated ==
    \A w \in BagToSet(workers) :
        (w.pc = "lookupFailed" /\ w.jobId \in DOMAIN jobStatus)
            => jobStatus[w.jobId].status # "error"

\* C9: when a worker's report request fails after its organization lookup
\* succeeded, the worker writes no file, and afterwards its job has no export
\* id, hence no file.
C9_NoArtifactAfterReportFailure ==
    [][\A w \in BagToSet(workers) :
          ReportReturns(w, FALSE)
              => /\ files' = files
                 /\ w.jobId \in DOMAIN jobStatus'
                      => jobStatus'[w.jobId].exportId = Null]_vars

\* C10: the download route answers 404 and changes nothing unless the job is
\* in the table with status completed and its file is on disk.
C10_DownloadOnlyCompleted ==
    [][\A j \in AskedIds :
          (/\ Download(j)
           /\ ~(/\ j \in DOMAIN jobStatus
                /\ jobStatus[j].status = "completed"
                /\ jobStatus[j].exportId # Null
                /\ FilePath(jobStatus[j].exportId) \in DOMAIN files))
              => (/\ DownloadAnswer(jobStatus, files, j).code = "notfound"
                  /\ UNCHANGED <<jobStatus, files, transfers>>)]_vars

C12_EveryJobLeavesProcessing ==
    \A j \in Ids :
        (j \in DOMAIN jobStatus /\ jobStatus[j].status = "processing")
            ~> ~(j \in DOMAIN jobStatus /\ jobStatus[j].status = "processing")

\* C13: whenever a worker ends through a failure (a remote call that errors
\* or answers non-2xx, a failed write, a record that is gone), the catch block
\* has handled it: the record, when it is still in the table, has status error
\* and a non-empty message.  (The worker has no other ending: the catch block
\* itself tests for the record before it writes to it.)
C13_FailuresCaught ==
    [][\A v \in BagToSet(workers') :
          (v.pc \in Failed /\ CopiesIn(v, workers') > CopiesIn(v, workers))
              => (v.jobId \in DOMAIN jobStatus'
                    => /\ jobStatus'[v.jobId].status = "error"
                       /\ jobStatus'[v.jobId].error # NoText)]_vars

\* A report request has failed with an error without a message, a write has
\* failed, and a worker has found its record gone; a record is in error with
\* the fallback message
C13_Witness ==
    /\ \E w \in BagToSet(workers) :
          /\ w.pc = "reportFailed"
          /\ w.jobId \in DOMAIN jobStatus
          /\ jobStatus[w.jobId].status = "error"
          /\ jobStatus[w.jobId].error = "Export failed"
    /\ \E w \in BagToSet(workers) : w.pc = "lostRecord"

\* C14: when the sweep of a Status call deletes the record of a completed job
\* that was never downloaded, the job's file is deleted too: after the call it
\* is not on disk.
C14_SweepRemovesArtifact ==
    [][\A i \in AskedIds, j \in DOMAIN jobStatus :
          (/\ Status(i)
           /\ j \notin DOMAIN jobStatus'
           /\ jobStatus[j].status = "completed"
           /\ j \notin consumed)
              => FilePath(jobStatus[j].exportId) \notin DOMAIN files']_vars

\* C15: once a download of a job has ended without error, the job has no
\* record: a Status call for its id answers 404.
C15_RecordGoneAfterDownload ==
    \A j \in consumed :
        /\ j \notin DOMAIN jobStatus
        /\ StatusAnswer(Sweep(jobStatus, now), j).code = "notfound"

\* C16: the download route answers 404 for a job whose record is older than
\* the expiry window, also while the record is still in the table because no
\* Status call has swept it.
C16_ExpiredNotDownloadable ==
    \A j \in AskedIds :
        (j \in DOMAIN jobStatus /\ now - jobStatus[j].created > ExpiryWindow)
            => DownloadAnswer(jobStatus, files, j).code = "notfound"

\* C17: no download reads a file that a worker is still writing: the file of
\* an export id that a record holds is complete, no worker is writing to the
\* file of an export id that a record holds, and the file of a transfer under
\* way is complete.
C17_NoReadOfPartialFile ==
    /\ \A j \in DOMAIN jobStatus :
          (jobStatus[j].exportId # Null
              /\ FilePath(jobStatus[j].exportId) \in DOMAIN files)
             => files[FilePath(jobStatus[j].exportId)] = "complete"
    /\ \A w \in BagToSet(workers) :
          w.pc = "writing"
             => \A j \in DOMAIN jobStatus : jobStatus[j].exportId # w.exportId
    /\ \A d \in BagToSet(transfers) :
          (d.pc = "transfer" /\ d.path \in DOMAIN files)
             => files[d.path] = "complete"

\* C18: jobs do not interfere.  No two records hold the same export id; and a
\* step of the worker of one job, or of a download of one job (the transfer,
\* the unlink), leaves every other job's record as it was and leaves the file
\* of every other completed job that was not downloaded as it was.
C18_JobsIndependent ==
    [][LET Untouched(k) ==
              \A j \in (DOMAIN jobStatus) \ {k} :
                  /\ j \in DOMAIN jobStatus'
                  /\ jobStatus'[j] = jobStatus[j]
                  /\ (/\ jobStatus[j].status = "completed"
                      /\ j \notin consumed
                      /\ FilePath(jobStatus[j].exportId) \in DOMAIN files)
                        => /\ FilePath(jobStatus[j].exportId) \in DOMAIN files'
                           /\ files'[FilePath(jobStatus[j].exportId)]
                                 = files[FilePath(jobStatus[j].exportId)]
       IN /\ \A j1, j2 \in DOMAIN jobStatus' :
                (j1 # j2 /\ jobStatus'[j1].exportId # Null)
                   => jobStatus'[j1].exportId # jobStatus'[j2].exportId
          /\ \A w \in BagToSet(workers), ok \in BOOLEAN :
                (OrgLookupReturns(w, ok) \/ ReportReturns(w, ok) \/ WriteReturns(w, ok))
                   => Untouched(w.jobId)
          /\ \A d \in BagToSet(transfers), ok \in BOOLEAN :
                (TransferEnds(d, ok) \/ UnlinkEnds(d, ok))
                   => Untouched(d.jobId)]_vars

\* C19: the export id of a completed job is not the job's own id, and no
\* worker writes to the file of another job that is completed and was not
\* downloaded.
C19_ArtifactIdNotJobId ==
    /\ \A j \in DOMAIN jobStatus :
          jobStatus[j].status = "completed" => jobStatus[j].exportId # j
    /\ \A w \in BagToSet(workers), j \in DOMAIN jobStatus :
          (/\ w.pc = "writing"
           /\ j # w.jobId
           /\ jobStatus[j].status = "completed"
           /\ j \notin consumed)
              => jobStatus[j].exportId # w.exportId

\* C20: in every state, the table that a Status call leaves (for any job id)
\* holds no record older than the expiry window, and holds every record that
\* is not older than the window, unchanged, whatever the records' status.
C20_SweepComplete ==
    /\ \A j \in DOMAIN Sweep(jobStatus, now) :
          now - Sweep(jobStatus, now)[j].created <= ExpiryWindow
    /\ \A j \in DOMAIN jobStatus :
          now - jobStatus[j].created <= ExpiryWindow
             => /\ j \in DOMAIN Sweep(jobStatus, now)
                /\ Sweep(jobStatus, now)[j] = jobStatus[j]

\* The record of a completed job has been swept, and a record exactly one
\* window old is in the table
C20_Witness ==
    /\ \E w \in BagToSet(workers) : w.pc = "completed" /\ w.jobId \notin DOMAIN jobStatus
    /\ \E j \in DOMAIN jobStatus : now - jobStatus[j].created = ExpiryWindow

\* C21: a step of a worker whose record is not in the table (it was reaped)
\* leaves the table as it was, whether the step is a success or a failure: the
\* record is not re-created and no other record changes.  (The worker ends in
\* lostRecord on a success, in one of the failures otherwise: the TypeError of
\* the success path is caught.)
C21_FinishAfterReapIsNoOp ==
    [][\A w \in BagToSet(workers), ok \in BOOLEAN :
          (/\ w.jobId \notin DOMAIN jobStatus
           /\ (OrgLookupReturns(w, ok) \/ ReportReturns(w, ok) \/ WriteReturns(w, ok)))
              => jobStatus' = jobStatus]_vars

\* A worker has found its record gone when it finished, the record is still
\* gone, and the table holds the record of another job
C21_Witness ==
    /\ \E w \in BagToSet(workers) : w.pc = "lostRecord" /\ w.jobId \notin DOMAIN jobStatus
    /\ DOMAIN jobStatus # {}

\* C22: when the write of the file fails, the job ends in error and the file
\* of the export id the worker had made is not on disk, neither partial nor
\* complete.
C22_FailedWriteLeavesNoFile ==
    [][\A w \in BagToSet(workers) :
          WriteReturns(w, FALSE)
              => /\ FilePath(w.exportId) \notin DOMAIN files'
                 /\ w.jobId \in DOMAIN jobStatus'
                       => jobStatus'[w.jobId].status = "error"]_vars

\* C23 as claimed: job records are removed only by the sweep of a Status call,
\* and a step that is not a Status call removes neither a record nor the file
\* of a record.
C23_OnlyStatusRemoves ==
    [][\/ \E i \in AskedIds : Status(i)
       \/ /\ DOMAIN jobStatus \subseteq DOMAIN jobStatus'
          /\ \A j \in DOMAIN jobStatus :
                (jobStatus[j].exportId # Null
                    /\ FilePath(jobStatus[j].exportId) \in DOMAIN files)
                   => FilePath(jobStatus[j].exportId) \in DOMAIN files']_vars

\* C23 as amended: job records are removed only by the sweep of a Status call,
\* and files are removed only by the unlink that follows a transfer.
C23_RemovedBySweepOrUnlinkOnly ==
    [][/\ \/ DOMAIN jobStatus \subseteq DOMAIN jobStatus'
          \/ \E i \in AskedIds : Status(i)
       /\ \/ DOMAIN files \subseteq DOMAIN files'
          \/ \E d \in BagToSet(transfers) : UnlinkEnds(d, TRUE)]_vars

\* No sweep has removed anything: a completed job older than the expiry window
\* has its record and its file, and every Start call has its record
C23_Witness ==
    \E j \in DOMAIN jobStatus :
        /\ now - jobStatus[j].created > ExpiryWindow
        /\ jobStatus[j].status = "completed"
        /\ FilePath(jobStatus[j].exportId) \in DOMAIN files
        /\ \A w \in BagToSet(workers) : w.jobId \in DOMAIN jobStatus

\* C24: Status is idempotent.  In every state, a second Status call that
\* follows a first one directly (no other step, same clock reading) leaves the
\* table as the first call left it and sends, for every job id, the answer the
\* first call sent.
C24_StatusIdempotent ==
    /\ Sweep(Sweep(jobStatus, now), now) = Sweep(jobStatus, now)
    /\ \A j \in AskedIds :
          StatusReply(Sweep(jobStatus, now), now, j) = StatusReply(jobStatus, now, j)

\* A Status call has swept the record of a job whose write had failed, and
\* the table it left has a record and is its own sweep
C24_Witness ==
    /\ \E w \in BagToSet(workers) : w.pc = "writeFailed" /\ w.jobId \notin DOMAIN jobStatus
    /\ DOMAIN jobStatus # {}
    /\ Sweep(jobStatus, now) = jobStatus

\* C25: a job that nobody polls or downloads is still finished by its worker
\* and reaped: a record in the table eventually has a terminal status, and
\* eventually is not in the table.
C25_AbandonedJobFinishedAndReaped ==
    \A j \in Ids :
        /\ (j \in DOMAIN jobStatus)
              ~> (j \in DOMAIN jobStatus /\ jobStatus[j].status \in Terminal)
        /\ (j \in DOMAIN jobStatus) ~> (j \notin DOMAIN jobStatus)

\* C26: when a worker whose record was reaped finishes its write (with or
\* without error), the file it wrote is not on disk afterwards: no file is
\* left that no record refers to.
C26_NoOrphanFileAfterReap ==
    [][\A w \in BagToSet(workers), ok \in BOOLEAN :
          (w.jobId \notin DOMAIN jobStatus /\ WriteReturns(w, ok))
              => FilePath(w.exportId) \notin DOMAIN files']_vars

\* C29: a transfer that ends with an error leaves the files and the table as
\* they were and does not call fs.unlink, so that the job can be downloaded
\* again when it could before; a file is removed only by the unlink of a
\* download whose transfer ended without error.
C29_FailedTransferKeepsFile ==
    [][/\ \A d \in BagToSet(transfers) :
             TransferEnds(d, FALSE)
                => /\ files' = files
                   /\ jobStatus' = jobStatus
                   /\ transfers' = transfers (-) SetToBag({d})
                   /\ Servable(jobStatus, files, d.jobId)
                         => DownloadAnswer(jobStatus', files', d.jobId).code = "file"
       /\ \/ DOMAIN files \subseteq DOMAIN files'
          \/ \E d \in BagToSet(transfers) :
                d.jobId \in consumed /\ UnlinkEnds(d, TRUE)]_vars

\* The transfer of a completed job that was never downloaded is under way,
\* and the job's file is on disk
C29_Witness ==
    \E d \in BagToSet(transfers) :
        /\ d.pc = "transfer"
        /\ d.jobId \notin consumed
        /\ Servable(jobStatus, files, d.jobId)
        /\ jobStatus[d.jobId].status = "completed"

\* C27: the poller stops: once the callback has handled an answer that says
\* completed or error, a rejected fetch, or a 404 (the job was reaped), the
\* interval is cleared.
C27_PollerStops ==
    poller.last \in {"completed", "error", "failed", "notfound"} => ~poller.polling

\* C28: the poller of a job schedules the automatic download at most once,
\* also when two of its requests are answered completed.
C28_PollerDownloadsOnce ==
    poller.scheduled <= 1

====
